---------------------------- MODULE Spec2Model ----------------------------
(***************************************************************************)
(* Session lifecycle and completion-wait protocol of the Claude Code       *)
(* runtime: ClaudeCodeProcessSpawner (registry, stop, process callbacks),  *)
(* ClaudeCodeCommunicator (output classification, output handlers,         *)
(* waitForCompletion) and ClaudeCodeRuntime (facade, shutdown).            *)
(*                                                                         *)
(* One step of the model is one run-to-completion piece of JavaScript: a   *)
(* host call up to its first suspension, a timer callback together with    *)
(* the continuation it resumes, or a pty callback.                         *)
(***************************************************************************)
EXTENDS Integers, Sequences, FiniteSets, TLC

(* ------------------------------ bounds --------------------------------- *)
\* Spec: sessions spawned over the life of one runtime instance
MaxSessions == 2
\* Spec: graceful stop calls of one session asleep in their grace window
MaxStops == 2
\* Spec: output chunks one process writes
MaxOutputs == 1
\* WaitSpec: sessions, waitForCompletion calls, sleeping stops, chunks
WaitSessions == 1
WaitWaiters == 2
WaitStops == 1
WaitOutputs == 2
\* FairWaitSpec: sessions, waitForCompletion calls, sleeping stops, chunks
FairSessions == 1
FairWaiters == 2
FairStops == 1
FairOutputs == 1
\* ApiSpec: sessions and waitForCompletion calls
ApiSessions == 2
ApiWaiters == 1
\* CallSpec: sessions
CallSessions == 2
\* RestartSpec: sessions, sleeping stops
RestartSessions == 2
RestartStops == 1
\* FaultSpec: sessions, sleeping stops
FaultSessions == 2
FaultStops == 1
\* IdSpec: sessions, values of the random suffix of an id
IdSessions == 3
IdSuffixes == 2
\* BufSpec: sessions, output chunks per session (more than the buffer holds)
BufSessions == 1
BufOutputs == 102
\* IndepSpec: sessions, waits, output chunks per session
IndepSessions == 2
IndepWaiters == 1
IndepOutputs == 2
\* CtorSpec: sessions
CtorSessions == 2
\* HandlerSpec: sessions, waitForCompletion calls, chunks per session
HandlerSessions == 2
HandlerWaiters == 2
HandlerOutputs == 2
\* EventSpec: sessions, chunks per session
EventSessions == 2
EventOutputs == 1
\* SendSpec: sessions
SendSessions == 2
\* ParseSpec: characters fed to one parser
MaxText == 6

Larger(a, b) == IF a > b THEN a ELSE b
Sids == 1..Larger(Larger(Larger(MaxSessions, WaitSessions), Larger(FairSessions, ApiSessions)),
                  Larger(Larger(CallSessions, RestartSessions),
                         Larger(FaultSessions, IdSessions)))
\* an id the spawner never generated, plus the generated ones
Keys == {0} \cup Sids
Waiters == 1..Larger(WaitWaiters, Larger(FairWaiters, ApiWaiters))

(* ------------------------------- state --------------------------------- *)
VARIABLES
  isInitialized,   \* ClaudeCodeRuntime.isInitialized
  shutdownPc,      \* "idle" | "cleanup": shutdown() awaiting spawner.cleanup()
  nextId,          \* number of session ids generated so far
  activeSessions,  \* keys of ClaudeCodeProcessSpawner.activeSessions
  session,         \* sid -> the ClaudeCodeSession record (lives on after removal)
  pty,             \* sid -> the process behind the IPty and the signals it was sent
  spawnPc,         \* sid -> position of the spawn() call that created it
  graceStops,      \* sid -> graceful stop() calls sleeping in their grace window
  stopReturned,    \* sid -> kinds of stop() that found it registered and returned
  stopped,         \* sid -> the `stopped` events emitted, TRUE = carries exitCode
  buffer,          \* DefaultOutputParser.buffer, by the markers it contains
  outputHandlers,  \* key -> the handler in ClaudeCodeCommunicator.outputHandlers
  waiter,          \* w -> one waitForCompletion call: its promise and its timer
  restartPending,  \* the tasks of the restart() calls between force-stop and respawn
  lastCall,        \* the latest host call on the runtime and how it ended
  limits,          \* how much one behaviour does; fixed by the initial state
  instance,        \* "none" | "constructed" | "threw": what `new ClaudeCodeRuntime` gave
  returned,        \* the value the latest checkAvailability() or parse() returned,
                   \* or the text the latest send handed to the spawner's write()
  events           \* the emit() calls and the listener calls they made, in order

rtVars == <<isInitialized, shutdownPc, restartPending>>
spVars == <<nextId, activeSessions, session, pty, spawnPc, graceStops, stopReturned, stopped,
            events>>
coVars == <<buffer, outputHandlers, waiter>>
vars == <<isInitialized, shutdownPc, restartPending, nextId, activeSessions,
          session, pty, spawnPc, graceStops, stopReturned, stopped,
          buffer, outputHandlers, waiter, lastCall, limits, instance, returned, events>>

NoHandler == [kind |-> "none", w |-> 0]
HostHandler == [kind |-> "host", w |-> 0]
WaitHandler(w) == [kind |-> "wait", w |-> w]

NoId == [stamp |-> 0, rand |-> 0]
NoSession == [state |-> "none", outputs |-> 0, sessionId |-> NoId, task |-> 0,
              restartOf |-> 0, outputBuffer |-> <<>>, own |-> [done |-> FALSE, err |-> FALSE, endsQ |-> FALSE]]
NoPty == [proc |-> "none", signals |-> {}, lateTerm |-> FALSE, args |-> "none",
          written |-> {}, threw |-> FALSE]
NoWaiter == [key |-> 0, st |-> "unused", timer |-> "none", settles |-> 0,
             result |-> 0, firstComplete |-> 0, firstError |-> 0, lost |-> "no"]
EmptyBuffer == [done |-> FALSE, err |-> FALSE, endsQ |-> FALSE]

NoValue == [type |-> "none"]

\* an agent configuration with the three required fields as they should be
ValidAgent == [id |-> "test-agent", workspace |-> "/tmp/test-workspace",
               runtime |-> "claudeCode"]

\* the configurations a host may pass: each required field given or empty,
\* the runtime discriminator the designated one, another one or empty
AgentConfigs == [id : {"", ValidAgent.id}, workspace : {"", ValidAgent.workspace},
                 runtime : {"", "default", ValidAgent.runtime}]

\* the state in which nothing has been spawned, registered or called
Allocated(lim) ==
  /\ limits = lim
  /\ returned = NoValue
  /\ shutdownPc = "idle"
  /\ restartPending = <<>>
  /\ nextId = 0
  /\ activeSessions = {}
  /\ session = [s \in Sids |-> NoSession]
  /\ pty = [s \in Sids |-> NoPty]
  /\ spawnPc = [s \in Sids |-> "none"]
  /\ graceStops = [s \in Sids |-> 0]
  /\ stopReturned = [s \in Sids |-> {}]
  /\ stopped = [s \in Sids |-> <<>>]
  /\ events = <<>>
  /\ outputHandlers = [k \in Keys |-> NoHandler]
  /\ waiter = [w \in Waiters |-> NoWaiter]
  /\ lastCall = [op |-> "none", err |-> "none"]

\* the state after the constructor has run to its end
Start(lim) ==
  /\ Allocated(lim)
  /\ buffer = EmptyBuffer
  /\ isInitialized = TRUE
  /\ instance = "constructed"

\* A chunk by what the parsers and the spawner look for in it. Text chunks:
\* "done" contains 'Task completed', "err" contains 'Error: <msg>\n', "ask"
\* ends with '?', "ready" contains 'Claude Code', "text" contains none of
\* these. JSON chunks: "completion" and "error" are records with that `type`,
\* "json" is any other record.
TextChunks == {"text", "ready", "done", "err", "ask"}
JsonChunks == {"completion", "error", "json"}
Chunks == TextChunks \cup JsonChunks
Modes == {"fresh", "resume", "continue"}

\* the state after `new ClaudeCodeRuntime(options)` with a valid
\* configuration: lifecycle of sessions, no waiters
Init == Start([sessions |-> MaxSessions, waiters |-> 0, stops |-> MaxStops,
               outputs |-> MaxOutputs, calls |-> FALSE, modes |-> Modes,
               chunks |-> {"text", "ready"}, parser |-> "default",
               unknown |-> {0}, detail |-> FALSE, faults |-> FALSE, tasks |-> {1},
               elapsed |-> {1}, rands |-> {1},
    agent |-> ValidAgent, events |-> "off"])

\* the same state for the completion-wait protocol: sessions are resumed
\* (no settle delay), the process writes text with and without markers
WaitInit == Start([sessions |-> WaitSessions, waiters |-> WaitWaiters, stops |-> WaitStops,
                   outputs |-> WaitOutputs, calls |-> FALSE, modes |-> {"resume"},
                   chunks |-> {"text", "done", "err", "ask"}, parser |-> "default",
                   unknown |-> {}, detail |-> FALSE, faults |-> FALSE, tasks |-> {1},
                   elapsed |-> {1}, rands |-> {1},
    agent |-> ValidAgent, events |-> "off"])

\* the same state for the fate of every wait, also on an id no session has
FairWaitInit == Start([sessions |-> FairSessions, waiters |-> FairWaiters, stops |-> FairStops,
                       outputs |-> FairOutputs, calls |-> FALSE, modes |-> {"resume"},
                       chunks |-> {"text", "done"}, parser |-> "default",
                       unknown |-> {0}, detail |-> FALSE, faults |-> FALSE, tasks |-> {1},
                       elapsed |-> {1}, rands |-> {1},
    agent |-> ValidAgent, events |-> "off"])

\* the same state, with the outcome of every host call recorded; stops are
\* forced and the processes write nothing
ApiInit == Start([sessions |-> ApiSessions, waiters |-> ApiWaiters, stops |-> 0,
                  outputs |-> 0, calls |-> TRUE, modes |-> Modes,
                  chunks |-> {"text"}, parser |-> "default", unknown |-> {0},
                  detail |-> FALSE, faults |-> FALSE, tasks |-> {1},
                  elapsed |-> {1}, rands |-> {1},
    agent |-> ValidAgent, events |-> "off"])

\* the same state, with the outcome of every host call recorded and what
\* each process is sent followed; stops are forced
CallInit == Start([sessions |-> CallSessions, waiters |-> 0, stops |-> 0,
                   outputs |-> 0, calls |-> TRUE, modes |-> {"fresh", "resume"},
                   chunks |-> {"text"}, parser |-> "default", unknown |-> {0},
                   detail |-> TRUE, faults |-> FALSE, tasks |-> {1},
                   elapsed |-> {1}, rands |-> {1},
    agent |-> ValidAgent, events |-> "off"])

\* the same state, with two tasks and what each process is started with and
\* sent followed
RestartInit == Start([sessions |-> RestartSessions, waiters |-> 0, stops |-> RestartStops,
                      outputs |-> 0, calls |-> FALSE, modes |-> {"fresh", "resume"},
                      chunks |-> {"text"}, parser |-> "default", unknown |-> {0},
                      detail |-> TRUE, faults |-> FALSE, tasks |-> {1, 2},
                      elapsed |-> {1}, rands |-> {1},
    agent |-> ValidAgent, events |-> "off"])

\* the same state, with pty.kill() free to throw
FaultInit == Start([sessions |-> FaultSessions, waiters |-> 0, stops |-> FaultStops,
                    outputs |-> 0, calls |-> FALSE, modes |-> {"fresh", "resume"},
                    chunks |-> {"text"}, parser |-> "default", unknown |-> {0},
                    detail |-> FALSE, faults |-> TRUE, tasks |-> {1},
                    elapsed |-> {1}, rands |-> {1},
    agent |-> ValidAgent, events |-> "off"])

\* the same state, with spawns that may fall into one millisecond and a
\* random suffix of few values; stops are forced
IdInit == Start([sessions |-> IdSessions, waiters |-> 0, stops |-> 0,
                 outputs |-> 0, calls |-> FALSE, modes |-> {"fresh", "resume"},
                 chunks |-> {"text"}, parser |-> "default", unknown |-> {},
                 detail |-> TRUE, faults |-> FALSE, tasks |-> {1},
                 elapsed |-> {0, 1}, rands |-> 1..IdSuffixes,
    agent |-> ValidAgent, events |-> "off"])

\* the same state for a resumed session that writes more chunks than its
\* output buffer holds
BufInit == Start([sessions |-> BufSessions, waiters |-> 0, stops |-> 0,
                  outputs |-> BufOutputs, calls |-> FALSE, modes |-> {"resume"},
                  chunks |-> {"text"}, parser |-> "default", unknown |-> {},
                  detail |-> FALSE, faults |-> FALSE, tasks |-> {1},
                  elapsed |-> {1}, rands |-> {1},
    agent |-> ValidAgent, events |-> "off"])

\* the same state for two resumed sessions that write at the same time
\* while one of them is waited for
IndepInit == Start([sessions |-> IndepSessions, waiters |-> IndepWaiters, stops |-> 0,
                    outputs |-> IndepOutputs, calls |-> FALSE, modes |-> {"resume"},
                    chunks |-> {"text", "done", "err"}, parser |-> "default",
                    unknown |-> {}, detail |-> FALSE, faults |-> FALSE, tasks |-> {1},
                    elapsed |-> {1}, rands |-> {1},
    agent |-> ValidAgent, events |-> "off"])

\* the same state for a host that registers and clears output handlers of
\* two resumed sessions
HandlerInit == Start([sessions |-> HandlerSessions, waiters |-> HandlerWaiters, stops |-> 0,
                      outputs |-> HandlerOutputs, calls |-> FALSE, modes |-> {"resume"},
                      chunks |-> {"text", "done"}, parser |-> "default",
                      unknown |-> {}, detail |-> FALSE, faults |-> FALSE, tasks |-> {1},
                      elapsed |-> {1}, rands |-> {1}, agent |-> ValidAgent, events |-> "off"])

\* the same state for a host that sends messages and commands to resumed
\* sessions; what each process was sent is recorded
SendInit == Start([sessions |-> SendSessions, waiters |-> 0, stops |-> 0,
                   outputs |-> 0, calls |-> FALSE, modes |-> {"resume"},
                   chunks |-> {"text"}, parser |-> "default",
                   unknown |-> {}, detail |-> TRUE, faults |-> FALSE, tasks |-> {1},
                   elapsed |-> {1}, rands |-> {1}, agent |-> ValidAgent, events |-> "off"])

\* the same state for a host that listens to the events of two sessions,
\* with or without an onEvent callback; every emit and listener call is kept
EventInit ==
  \E ev \in {"on", "onEvent"} :
    Start([sessions |-> EventSessions, waiters |-> 0, stops |-> 0,
           outputs |-> EventOutputs, calls |-> FALSE, modes |-> {"fresh", "resume"},
           chunks |-> {"text", "done"}, parser |-> "default",
           unknown |-> {}, detail |-> FALSE, faults |-> FALSE, tasks |-> {1},
           elapsed |-> {1}, rands |-> {1}, agent |-> ValidAgent, events |-> ev])

\* the state before `new ClaudeCodeRuntime({ agent })` for any configuration;
\* the outcome of every host call is recorded
CtorInit ==
  /\ \E a \in AgentConfigs :
       Allocated([sessions |-> CtorSessions, waiters |-> 0, stops |-> 0, outputs |-> 0,
                  calls |-> TRUE, modes |-> {"resume"}, chunks |-> {"text"},
                  parser |-> "default", unknown |-> {}, detail |-> FALSE,
                  faults |-> FALSE, tasks |-> {1}, elapsed |-> {1}, rands |-> {1},
                  agent |-> a, events |-> "off"])
  /\ buffer = EmptyBuffer
  /\ isInitialized = FALSE
  /\ instance = "none"

\* a communicator with either reference parser and an empty text buffer
ParseInit ==
  /\ \E kind \in {"default", "json"} :
       Allocated([sessions |-> 0, waiters |-> 0, stops |-> 0, outputs |-> 0,
                  calls |-> FALSE, modes |-> {"resume"}, chunks |-> {"text"},
                  parser |-> kind, unknown |-> {}, detail |-> FALSE,
                  faults |-> FALSE, tasks |-> {1}, elapsed |-> {1}, rands |-> {1},
                  agent |-> ValidAgent, events |-> "off"])
  /\ buffer = <<>>
  /\ isInitialized = TRUE
  /\ instance = "constructed"

(* --------------------------- ClaudeCodeRuntime ------------------------- *)
\* faulty variant of ensureInitialized: the guard lets every call through
ensureInitializedAlways == TRUE

\* ensureInitialized(): TRUE when the call may proceed, FALSE when it throws
\* 'Claude Code Runtime is not initialized'.
ensureInitialized == isInitialized

\* faulty variant of validateAgentConfig: the runtime type is not looked at
validateAgentConfigAnyRuntime(agent) ==
  IF agent.id = "" THEN "MissingId"
  ELSE IF agent.workspace = "" THEN "MissingWorkspace"
  ELSE "ok"

\* validateAgentConfig(): "ok", or the error it throws
validateAgentConfig(agent) ==
  IF agent.id = "" THEN "MissingId"
  ELSE IF agent.workspace = "" THEN "MissingWorkspace"
  ELSE IF agent.runtime # "claudeCode" THEN "InvalidRuntime"
  ELSE "ok"

\* new ClaudeCodeRuntime({ agent }): validate, create spawner and
\* communicator, set isInitialized; a throw leaves no instance
Construct ==
  /\ instance = "none"
  /\ LET v == validateAgentConfig(limits.agent)
     IN /\ instance' = IF v = "ok" THEN "constructed" ELSE "threw"
        /\ isInitialized' = (v = "ok")
        /\ lastCall' = IF limits.calls THEN [op |-> "new", err |-> v] ELSE lastCall
  /\ UNCHANGED <<shutdownPc, restartPending, spVars, coVars, limits, returned>>

\* the host holds an instance it can call
Constructed == instance = "constructed"

\* what `${binaryPath} --version` can do: print a version, print nothing,
\* or fail (no such file, non-zero exit, timeout)
Probes == {[ok |-> TRUE, output |-> <<"1.0.0", "\n">>], [ok |-> TRUE, output |-> <<>>],
           [ok |-> FALSE, message |-> "ENOENT"], [ok |-> FALSE, message |-> "ETIMEDOUT"]}

Whitespace == {" ", "\n"}

\* String.prototype.trim on a text given as a sequence of characters
RECURSIVE TrimLeft(_), TrimRight(_)
TrimLeft(s) == IF s # <<>> /\ Head(s) \in Whitespace THEN TrimLeft(Tail(s)) ELSE s
TrimRight(s) ==
  IF s # <<>> /\ s[Len(s)] \in Whitespace THEN TrimRight(SubSeq(s, 1, Len(s) - 1)) ELSE s
Trim(s) == TrimRight(TrimLeft(s))

\* faulty variant of AvailabilityGuard: the call goes through ensureInitialized
AvailabilityGuardInitialized == ensureInitialized

\* checkAvailability() does not call ensureInitialized
AvailabilityGuard == TRUE

\* checkAvailability(): the try block returns, the catch block returns
checkAvailability(probe) ==
  IF probe.ok THEN [available |-> TRUE, version |-> Trim(probe.output)]
  ELSE [available |-> FALSE, error |-> probe.message]

CheckAvailability(probe) ==
  /\ IF AvailabilityGuard
     THEN /\ returned' = checkAvailability(probe)
          /\ lastCall' = IF limits.calls THEN [op |-> "checkAvailability", err |-> "ok"]
                         ELSE lastCall
     ELSE /\ returned' = returned
          /\ lastCall' = IF limits.calls
                         THEN [op |-> "checkAvailability", err |-> "NotInitialized"]
                         ELSE lastCall
  /\ UNCHANGED <<rtVars, spVars, coVars, limits, instance>>

\* No continuation sits on the microtask queue: timer and pty callbacks are
\* macrotasks and run only then. shutdown() after its synchronous cleanup and
\* restart() after its synchronous force-stop wait on promises that are
\* already resolved.
Quiescent == shutdownPc = "idle" /\ restartPending = <<>>

\* the session ids a host can pass: those spawn() returned, and any other
\* string (0)
Known == limits.unknown \cup 1..nextId

\* bookkeeping kept only by the specifications that look at it
Detail(x, dflt) == IF limits.detail THEN x ELSE dflt

\* the host sees how its call ended (recorded when limits.calls)
Called(op, err) ==
  /\ lastCall' = IF limits.calls THEN [op |-> op, err |-> err] ELSE lastCall
  /\ UNCHANGED <<limits, instance, returned>>

(* ------------------------- DefaultOutputParser ------------------------- *)
\* this.buffer += output
Accumulate(buf, chunk) ==
  [done |-> buf.done \/ chunk = "done",
   err |-> buf.err \/ chunk = "err",
   endsQ |-> chunk = "ask"]

\* DefaultOutputParser.parse: the ParsedOutput for the accumulated buffer
Classify(buf) ==
  IF buf.done THEN [type |-> "result", isComplete |-> TRUE]
  ELSE IF buf.err THEN [type |-> "error", isComplete |-> FALSE]
  ELSE IF buf.endsQ THEN [type |-> "prompt", isComplete |-> FALSE]
  ELSE [type |-> "raw", isComplete |-> FALSE]

\* JsonOutputParser.parse: by the chunk alone; a chunk that does not decode
\* is raw
JsonParse(chunk) ==
  IF chunk = "completion" THEN [type |-> "result", isComplete |-> TRUE]
  ELSE IF chunk = "error" THEN [type |-> "error", isComplete |-> FALSE]
  ELSE IF chunk = "json" THEN [type |-> "status", isComplete |-> FALSE]
  ELSE [type |-> "raw", isComplete |-> FALSE]

\* this.parser.parse(data), the parser chosen at construction
parse(kind, buf, chunk) ==
  IF kind = "json" THEN JsonParse(chunk) ELSE Classify(Accumulate(buf, chunk))

(* ------------------------- the parsers, on text ------------------------ *)
\* A text is a sequence of pieces of characters. Whitespace and line ends
\* are pieces of one character; every marker is two pieces, so that it can
\* arrive in two chunks; no other two pieces spell a marker.
TaskCompleted == <<"Task ", "completed">>
Done == <<"Do", "ne">>
ErrorColon == <<"Error", ":">>
Failed == <<"Fail", "ed">>
PleaseProvide == <<"Please ", "provide">>
QuestionMark == <<"?">>

\* the characters \s matches, and those `.` does not match
Spaces == {" ", "\n", "\r"}
LineTerminators == {"\n", "\r"}

\* String.prototype.includes / endsWith
Includes(text, m) ==
  \E i \in 1..Len(text) : i + Len(m) - 1 <= Len(text) /\ SubSeq(text, i, i + Len(m) - 1) = m
EndsWith(text, m) ==
  Len(m) <= Len(text) /\ SubSeq(text, Len(text) - Len(m) + 1, Len(text)) = m

\* /Error:\s*(.+?)(?:\n|$)/ tried at one place: r is the text behind an
\* 'Error:'. \s* takes k whitespace characters, as many as it can; (.+?)
\* then takes characters that are not line terminators, as few as it can,
\* until a '\n' or the end of the text follows. MatchAt: the k that match.
SpaceRun(r) == {k \in 0..Len(r) : \A j \in 1..k : r[j] \in Spaces}
CaptureEnd(r, k) ==
  {e \in (k + 1)..Len(r) :
     /\ \A j \in (k + 1)..e : r[j] \notin LineTerminators
     /\ e = Len(r) \/ r[e + 1] = "\n"}
MatchAt(r) == {k \in SpaceRun(r) : CaptureEnd(r, k) # {}}
Largest(S) == CHOOSE k \in S : \A j \in S : j <= k
Smallest(S) == CHOOSE k \in S : \A j \in S : k <= j
Capture(r) ==
  LET k == Largest(MatchAt(r))
  IN SubSeq(r, k + 1, Smallest(CaptureEnd(r, k)))

\* the text behind the 'Error:' that starts at place i
Behind(text, i) == SubSeq(text, i + Len(ErrorColon), Len(text))

\* extractError(text): the capture of the leftmost match, else the text
extractError(text) ==
  LET at == {i \in 1..Len(text) :
               /\ i + Len(ErrorColon) - 1 <= Len(text)
               /\ SubSeq(text, i, i + Len(ErrorColon) - 1) = ErrorColon
               /\ MatchAt(Behind(text, i)) # {}}
  IN IF at = {} THEN text ELSE Capture(Behind(text, Smallest(at)))

\* a faulty variant of DefaultOutputParserParse: an error ends the task too
DefaultOutputParserParseErrorEnds(text, output) ==
  IF Includes(text, TaskCompleted) \/ Includes(text, Done)
  THEN [type |-> "result", content |-> text, isComplete |-> TRUE]
  ELSE IF Includes(text, ErrorColon) \/ Includes(text, Failed)
  THEN [type |-> "error", content |-> text, error |-> text, isComplete |-> TRUE]
  ELSE IF EndsWith(text, QuestionMark) \/ Includes(text, PleaseProvide)
  THEN [type |-> "prompt", content |-> text]
  ELSE [type |-> "raw", content |-> output]

\* DefaultOutputParser.parse(output) on the buffer after `buffer += output`
DefaultOutputParserParse(text, output) ==
  IF Includes(text, TaskCompleted) \/ Includes(text, Done)
  THEN [type |-> "result", content |-> text, isComplete |-> TRUE]
  ELSE IF Includes(text, ErrorColon) \/ Includes(text, Failed)
  THEN [type |-> "error", content |-> text, error |-> extractError(text)]
  ELSE IF EndsWith(text, QuestionMark) \/ Includes(text, PleaseProvide)
  THEN [type |-> "prompt", content |-> text]
  ELSE [type |-> "raw", content |-> output]

\* JSON texts, piece by piece: the values JSON.parse gives for them
JsonStrings == {"\"type\"", "\"completion\"", "\"error\"", "\"progress\""}
JsonScalars == JsonStrings \cup {"null", "42", "true"}
JsonValue(piece) ==
  IF piece \in JsonStrings THEN [kind |-> "string", value |-> piece]
  ELSE IF piece = "null" THEN [kind |-> "null"]
  ELSE IF piece = "42" THEN [kind |-> "number"]
  ELSE [kind |-> "boolean"]

SyntaxError == [kind |-> "SyntaxError"]

\* JSON.parse(output): a scalar, an empty array, or an object of no or one
\* member whose value is a scalar; anything else does not decode
JSONParse(output) ==
  IF Len(output) = 1 /\ output[1] \in JsonScalars THEN JsonValue(output[1])
  ELSE IF output = <<"[", "]">> THEN [kind |-> "array"]
  ELSE IF output = <<"{", "}">> THEN [kind |-> "object", members |-> {}]
  ELSE IF /\ Len(output) = 5
          /\ output[1] = "{" /\ output[2] \in JsonStrings /\ output[3] = ":"
          /\ output[4] \in JsonScalars /\ output[5] = "}"
  THEN [kind |-> "object", members |-> {<<output[2], JsonValue(output[4])>>}]
  ELSE SyntaxError

\* data.type: a TypeError on null, undefined where there is no such member
TypeOf(data) ==
  IF data.kind = "null" THEN [kind |-> "TypeError"]
  ELSE IF data.kind = "object" /\ \E m \in data.members : m[1] = "\"type\""
  THEN (CHOOSE m \in data.members : m[1] = "\"type\"")[2]
  ELSE [kind |-> "undefined"]

\* JsonOutputParser.parse(output): the catch block answers every throw of
\* the try block. (The `content` of the other results is not followed.)
JsonOutputParserParse(output) ==
  LET data == JSONParse(output)
  IN IF data = SyntaxError \/ TypeOf(data).kind = "TypeError"
     THEN [type |-> "raw", content |-> output]
     ELSE IF TypeOf(data) = JsonValue("\"completion\"")
     THEN [type |-> "result", isComplete |-> TRUE]
     ELSE IF TypeOf(data) = JsonValue("\"error\"")
     THEN [type |-> "error"]
     ELSE [type |-> "status"]

\* the chunks a process may write, as texts
TextPieces == {<<"Error">>, <<":", " ", "disk full">>, <<"\r", "\n">>, <<"\n">>,
               <<"Do">>, <<"ne">>, <<"Task ", "completed">>, <<"Fail", "ed">>,
               <<"?">>, <<"Please ", "provide">>, <<"ok">>}
JsonTexts == {<<"{", "\"type\"", ":", "\"completion\"", "}">>,
              <<"{", "\"type\"", ":", "\"error\"", "}">>,
              <<"{", "\"type\"", ":", "\"progress\"", "}">>,
              <<"{", "\"type\"", ":", "null", "}">>,
              <<"{", "\"completion\"", ":", "\"type\"", "}">>,
              <<"{", "}">>, <<"[", "]">>, <<"null">>, <<"42">>, <<"true">>,
              <<"\"completion\"">>, <<"{", "\"type\"", ":">>, <<"ok">>, <<>>}

\* what the process of a session with this parser writes
Written(kind) == IF kind = "json" THEN JsonTexts ELSE TextPieces

\* this.parser.parse(data) in the communicator's `output` listener, for a
\* chunk given as text
Parse(output) ==
  /\ limits.parser = "json" \/ Len(buffer) + Len(output) <= MaxText
  /\ buffer' = IF limits.parser = "json" THEN buffer ELSE buffer \o output
  /\ returned' = IF limits.parser = "json" THEN JsonOutputParserParse(output)
                 ELSE DefaultOutputParserParse(buffer \o output, output)
  /\ UNCHANGED <<rtVars, spVars, outputHandlers, waiter, lastCall, limits, instance>>

(* ------------------------ ClaudeCodeCommunicator ----------------------- *)
\* The waiters whose handler is the one registered under key k
Registered(k) ==
  IF outputHandlers[k].kind = "wait" THEN {outputHandlers[k].w} ELSE {}

\* waiter table after the handlers of the keys in K left the table for `why`
Lose(wt, K, why) ==
  [w \in Waiters |->
     IF \E k \in K : w \in Registered(k) THEN [wt[w] EXCEPT !.lost = why] ELSE wt[w]]

\* offOutput(k) for every k in K: outputHandlers.delete(k)
offOutput(hs, K) == [k \in Keys |-> IF k \in K THEN NoHandler ELSE hs[k]]

\* faulty variant of onOutput: the first handler of a key stays
onOutputKeepsFirst(hs, k, h) == IF hs[k] = NoHandler THEN [hs EXCEPT ![k] = h] ELSE hs

\* onOutput(k, h): outputHandlers.set(k, h)
onOutput(hs, k, h) == [hs EXCEPT ![k] = h]

\* faulty variant of HandlerSettles: settle on whatever arrives first
HandlerSettlesAny(out) == TRUE

\* the condition under which the handler of waitForCompletion settles
HandlerSettles(out) == out.isComplete \/ out.type = "error"

\* resolve(...) or reject(...) of a waiter's promise: only the first call settles it
Settle(wr, st, n) ==
  [wr EXCEPT !.settles = wr.settles + 1,
             !.st = IF wr.st = "pending" THEN st ELSE wr.st,
             !.result = IF wr.st = "pending" THEN n ELSE wr.result]

\* what the waitForCompletion timer callback does to the handler table
TimeoutDeregisters(w) == {waiter[w].key}

\* faulty variant of TimeoutRejects: reject only while the handler is still
\* the waiter's own
TimeoutRejectsOwn(wr) == IF wr.lost = "no" THEN Settle(wr, "rejectedTimeout", 0) ELSE wr

\* the timer callback rejects with the timeout error
TimeoutRejects(wr) == Settle(wr, "rejectedTimeout", 0)

\* the one-shot handler waitForCompletion registers, called with output n
Handler(wr, out, n) ==
  IF HandlerSettles(out)
  THEN LET cleared == [wr EXCEPT !.timer = "cleared"]
       IN IF out.type = "error" THEN Settle(cleared, "rejectedError", n)
          ELSE Settle(cleared, "resolved", n)
  ELSE wr

\* bookkeeping, not program state: the first complete and the first error
\* output of the waiter's session delivered before its timer fired
Observe(wr, k, out, n) ==
  IF wr.st = "unused" \/ wr.key # k \/ wr.timer = "fired" THEN wr
  ELSE [wr EXCEPT
          !.firstComplete = IF @ = 0 /\ out.isComplete THEN n ELSE @,
          !.firstError = IF @ = 0 /\ out.type = "error" THEN n ELSE @]

(* ----------------------- ClaudeCodeProcessSpawner ---------------------- *)
\* pty.kill(sig) / pty.write('\x03'); reg: the session is registered right now
Signal(p, sig, reg) ==
  [p EXCEPT !.signals = @ \cup {sig},
            !.lateTerm = @ \/ (sig = "TERM" /\ ~reg)]

\* pty.write(text): what the process was sent on its input
Wrote(p, what) == [p EXCEPT !.written = Detail(@ \cup {what}, @)]

\* generateSessionId(): `cc-<agent>-<Date.now()>-<Math.random() suffix>`. The
\* clock has advanced by some elapsed time since the previous call and the
\* suffix is any value Math.random() can give.
generateSessionId ==
  LET last == IF nextId = 0 THEN 0 ELSE session[nextId].sessionId.stamp
  IN {[stamp |-> last + e, rand |-> r] : e \in limits.elapsed, r \in limits.rands}

\* the sessions whose id is the id of sid
SameId(sid) == {s \in Sids : session[s].sessionId = session[sid].sessionId}

\* this.activeSessions.get(<id of sid>): the registered session, if any
Entry(sid) == IF sid \in Sids THEN activeSessions \cap SameId(sid) ELSE {}

\* `if (session.outputBuffer.length > 100)`
BufferCapacity == 100

\* faulty variant of Push: a full buffer keeps what it has
PushKeepsOldest(buf, x) == IF Len(buf) >= BufferCapacity THEN buf ELSE Append(buf, x)

\* onData: outputBuffer.push(data), then shift() once it is over capacity
Push(buf, x) ==
  LET b == Append(buf, x)
  IN IF Len(b) > BufferCapacity THEN Tail(b) ELSE b

(* ------------------------------- events -------------------------------- *)
\* the event names of the this.emit(...) statements of the spawner
SpawnerEmits == {"started", "output", "stopped"}

\* faulty variant of Forwarded: `stopped` events are not forwarded
ForwardedButStopped == {"started", "output", "error", "completed"}

\* setupEventForwarding: the spawner events the runtime emits again and
\* hands to onEvent
Forwarded == {"started", "output", "error", "completed", "stopped"}

\* one emit() call or one call of a listener: who made it, the event name
\* (for a handler: its kind), the session, the waiter of a wait handler, and
\* the kind of the ParsedOutput it carries
Event(by, name, sid, w, out) == [by |-> by, name |-> name, sid |-> sid, w |-> w, out |-> out]

\* faulty variant of CommunicatorListener: nothing is emitted for a session
\* without a handler
CommunicatorListenerIfHandled(name, sid, hs, out) ==
  IF name = "output" /\ hs[sid] # NoHandler
  THEN <<Event("communicator", "parsed-output", sid, 0, out.type),
         Event("runtime", "parsed-output", sid, 0, out.type),
         Event("handler", hs[sid].kind, sid, hs[sid].w, out.type)>>
  ELSE <<>>

\* the communicator's listener for `output`: emit `parsed-output` (the
\* runtime's listener emits it again), then call the handler found under
\* the session id of the event
CommunicatorListener(name, sid, hs, out) ==
  IF name = "output"
  THEN <<Event("communicator", "parsed-output", sid, 0, out.type),
         Event("runtime", "parsed-output", sid, 0, out.type)>>
       \o (IF hs[sid] # NoHandler
           THEN <<Event("handler", hs[sid].kind, sid, hs[sid].w, out.type)>>
           ELSE <<>>)
  ELSE <<>>

\* the runtime's listener of setupEventForwarding: this.emit, then onEvent
\* when the host supplied one
RuntimeListener(name, sid) ==
  IF name \in Forwarded
  THEN <<Event("runtime", name, sid, 0, "-")>>
       \o (IF limits.events = "onEvent" THEN <<Event("onEvent", name, sid, 0, "-")>> ELSE <<>>)
  ELSE <<>>

\* this.emit(name, ...) of the spawner: its listeners run in the order they
\* were registered, the communicator's (constructed first) before the
\* runtime's. (Recorded when limits.events is not "off".)
Dispatch(log, name, sid, hs, out) ==
  IF limits.events = "off" THEN log
  ELSE log \o <<Event("spawner", name, sid, 0, "-")>>
           \o CommunicatorListener(name, sid, hs, out)
           \o RuntimeListener(name, sid)

\* the spawner emits `name` without output
Emit(log, name, sid) == Dispatch(log, name, sid, outputHandlers, NoValue)

\* the same for every session of S, in the order of the registry
RECURSIVE EmitAll(_, _, _)
EmitAll(log, name, S) ==
  IF S = {} THEN log
  ELSE LET s == CHOOSE x \in S : \A y \in S : x <= y
       IN EmitAll(Emit(log, name, s), name, S \ {s})

\* the spawner has emitted an event of this name for session s
Emitted(s, name) ==
  /\ name \in SpawnerEmits
  /\ \/ name = "started" /\ spawnPc[s] = "returned"
     \/ name = "output" /\ session[s].outputs > 0
     \/ name = "stopped" /\ Len(stopped[s]) > 0

\* the names of the events of session s the host has received from the runtime
HostEvents(s) == {name \in Forwarded : Emitted(s, name)}


\* faulty variant of StopFinds: any session ever spawned is found
StopFindsSpawned(key) == key \in 1..nextId

\* stop(): this.activeSessions.get(sessionId) found the session
StopFinds(key) == key \in activeSessions

\* faulty variant of WriteFinds: any session ever spawned is found
WriteFindsSpawned(key) == key \in 1..nextId

\* write(): this.activeSessions.get(sessionId) found the session
WriteFinds(key) == key \in activeSessions

\* the sets of sessions whose pty.kill() may throw in one call
KillThrows(S) == IF limits.faults THEN SUBSET S ELSE {{}}

\* faulty variant of StopEscalates: escalate without looking at the registry
StopEscalatesBlind(sid) == TRUE

\* stop(): the test made after the grace window before the terminate signal
StopEscalates(sid) == sid \in activeSessions

\* stop(sid, true) for every sid in S, all of them registered: kill, mark the
\* record stopped, delete the entry, emit `stopped` without an exit code. For
\* the sessions in F pty.kill() throws: that stop() rejects and did nothing.
ForceStop(S, F) ==
  LET done == S \ F
  IN /\ pty' = [s \in Sids |->
                  IF s \in S \cap F THEN [pty[s] EXCEPT !.threw = TRUE]
                  ELSE IF s \in done THEN Signal(pty[s], "KILL", TRUE) ELSE pty[s]]
     /\ session' = [s \in Sids |->
                      IF s \in done THEN [session[s] EXCEPT !.state = "stopped"]
                      ELSE session[s]]
     /\ activeSessions' = activeSessions \ done
     /\ stopped' = [s \in Sids |->
                      IF s \in done THEN Append(stopped[s], FALSE) ELSE stopped[s]]
     /\ stopReturned' = [s \in Sids |->
                           IF s \in done THEN stopReturned[s] \cup {"force"}
                           ELSE stopReturned[s]]
     /\ events' = EmitAll(events, "stopped", done)

\* the sessions cleanup() stops: Array.from(this.activeSessions.keys())
CleanupTargets == activeSessions

\* faulty variant of CleanupReaches: the first stop that throws ends the loop
CleanupReachesUntilThrow(S, F) == {s \in S : \A f \in F : s <= f}

\* the sessions of S whose stop() cleanup() gets to call when the stops of F
\* throw: stop() is async, a throw inside it rejects its own promise only
CleanupReaches(S, F) == S

\* faulty variant of GracefulRemoves: the graceful path forgets the delete
GracefulKeeps(sid) == activeSessions

\* the registry after the continuation of a graceful stop
GracefulRemoves(sid) == activeSessions \ {sid}

\* the `stopped` events of a session after stop() emitted one
StopEmits(evs) == Append(evs, FALSE)

\* the `stopped` events of a session after the onExit callback emitted one
ExitEmits(evs) == Append(evs, TRUE)

\* spawn(): nodePtySpawn, register the record in state `starting` under the
\* generated id (activeSessions.set replaces an entry with the same id),
\* setupPtyHandlers; a fresh session then waits the settle delay
SpawnBegin(mode, task, id, old) ==
  LET sid == nextId + 1
  IN /\ nextId' = sid
     /\ activeSessions' = (activeSessions \ {s \in Sids : session[s].sessionId = id})
                             \cup {sid}
     /\ session' = [session EXCEPT ![sid] = [NoSession EXCEPT !.state = "starting",
                                                              !.sessionId = id,
                                                              !.task = task,
                                                              !.restartOf = old]]
     /\ pty' = [pty EXCEPT ![sid] = [NoPty EXCEPT !.proc = "alive",
                                                  !.args = Detail(mode, "none")]]
     /\ spawnPc' = [spawnPc EXCEPT ![sid] = IF mode = "fresh" THEN "settling" ELSE "returned"]
     /\ events' = IF mode = "fresh" THEN events ELSE Emit(events, "started", sid)
     /\ UNCHANGED <<graceStops, stopReturned, stopped>>

(* ------------------------------ host calls ----------------------------- *)
StartOps == [fresh |-> "startSession", resume |-> "resumeSession",
             continue |-> "continueLastSession"]

\* startSession / resumeSession / continueLastSession
StartSession(mode) ==
  /\ IF ensureInitialized
     THEN /\ nextId + Len(restartPending) < limits.sessions
          /\ \E task \in limits.tasks, id \in generateSessionId :
               SpawnBegin(mode, task, id, 0)
          /\ Called(StartOps[mode], IF mode = "fresh" THEN "suspended" ELSE "ok")
     ELSE /\ Called(StartOps[mode], "NotInitialized")
          /\ UNCHANGED spVars
  /\ UNCHANGED <<rtVars, coVars>>

\* spawn() after sleep(1000): sendTask throws when the session is gone,
\* otherwise the task is written and `started` is emitted
SpawnSettled(sid) ==
  /\ Quiescent
  /\ spawnPc[sid] = "settling"
  /\ spawnPc' = [spawnPc EXCEPT ![sid] = IF Entry(sid) # {} THEN "returned" ELSE "failed"]
  /\ pty' = [s \in Sids |-> IF s \in Entry(sid) THEN Wrote(pty[s], "task") ELSE pty[s]]
  /\ events' = IF Entry(sid) # {} THEN Emit(events, "started", sid) ELSE events
  /\ UNCHANGED <<rtVars, coVars, lastCall, limits, instance, returned, nextId, activeSessions, session,
                 graceStops, stopReturned, stopped>>

\* stopSession(key, force): spawner.stop, then communicator.offOutput
StopSession(key, force) ==
  /\ IF ~ensureInitialized
     THEN /\ Called("stopSession", "NotInitialized")
          /\ UNCHANGED <<spVars, coVars>>
     ELSE IF ~StopFinds(key)
     THEN /\ Called("stopSession", "ok")
          /\ outputHandlers' = offOutput(outputHandlers, {key})
          /\ waiter' = Lose(waiter, {key}, "stopSession")
          /\ UNCHANGED <<spVars, buffer>>
     ELSE IF force
     THEN \E F \in KillThrows({key}) :
            /\ ForceStop({key}, F)
            /\ Called("stopSession", IF F = {} THEN "ok" ELSE "KillFailed")
            /\ outputHandlers' = IF F = {} THEN offOutput(outputHandlers, {key})
                                 ELSE outputHandlers
            /\ waiter' = IF F = {} THEN Lose(waiter, {key}, "stopSession") ELSE waiter
            /\ UNCHANGED <<nextId, spawnPc, graceStops, buffer>>
     ELSE /\ graceStops[key] < limits.stops
          /\ Called("stopSession", "suspended")
          /\ pty' = [pty EXCEPT ![key] = Signal(@, "INT", TRUE)]
          /\ graceStops' = [graceStops EXCEPT ![key] = @ + 1]
          /\ UNCHANGED <<nextId, activeSessions, session, spawnPc, stopReturned,
                         stopped, events, coVars>>
  /\ UNCHANGED rtVars

\* stop(sid, false) after sleep(3000), and stopSession's offOutput after it
StopWake(sid) ==
  /\ Quiescent
  /\ graceStops[sid] > 0
  /\ graceStops' = [graceStops EXCEPT ![sid] = @ - 1]
  /\ pty' = [pty EXCEPT ![sid] =
               IF StopEscalates(sid) THEN Signal(@, "TERM", sid \in activeSessions) ELSE @]
  /\ session' = [session EXCEPT ![sid].state = "stopped"]
  /\ activeSessions' = GracefulRemoves(sid)
  /\ stopped' = [stopped EXCEPT ![sid] = StopEmits(@)]
  /\ events' = Emit(events, "stopped", sid)
  /\ stopReturned' = [stopReturned EXCEPT ![sid] = @ \cup {"graceful"}]
  /\ outputHandlers' = offOutput(outputHandlers, {sid})
  /\ waiter' = Lose(waiter, {sid}, "stopSession")
  /\ UNCHANGED <<rtVars, nextId, spawnPc, buffer, lastCall, limits, instance, returned>>

\* pty.onExit callback
ProcessExit(sid) ==
  /\ Quiescent
  /\ pty[sid].proc = "alive"
  /\ pty' = [pty EXCEPT ![sid].proc = "exited"]
  /\ session' = [session EXCEPT ![sid].state = "stopped"]
  /\ activeSessions' = activeSessions \ SameId(sid)
  /\ stopped' = [stopped EXCEPT ![sid] = ExitEmits(@)]
  /\ events' = Emit(events, "stopped", sid)
  /\ UNCHANGED <<rtVars, coVars, lastCall, limits, instance, returned, nextId, spawnPc, graceStops, stopReturned>>

\* faulty variant of onDataState: the readiness signal sets `running` in
\* whatever state the session is
onDataStateAnyState(state, chunk) == IF chunk = "ready" THEN "running" ELSE state

\* onData: `if (session.state === 'starting' && data.includes('Claude Code'))`
onDataState(state, chunk) ==
  IF state = "starting" /\ chunk = "ready" THEN "running" ELSE state

\* pty.onData callback, and the communicator's listener for the `output`
\* event it emits: parse, then call the session's handler
Output(sid, chunk) ==
  /\ Quiescent
  /\ pty[sid].proc = "alive"
  /\ session[sid].outputs < limits.outputs
  /\ LET n == session[sid].outputs + 1
         out == parse(limits.parser, buffer, chunk)
         hit == Registered(sid)
     IN /\ session' = [session EXCEPT
                         ![sid].outputs = n,
                         ![sid].outputBuffer = Push(@, n),
                         ![sid].own = Accumulate(@, chunk),
                         ![sid].state = onDataState(@, chunk)]
        /\ buffer' = IF limits.parser = "json" THEN buffer ELSE Accumulate(buffer, chunk)
        /\ events' = Dispatch(events, "output", sid, outputHandlers, out)
        /\ waiter' = [w \in Waiters |->
                        LET seen == Observe(waiter[w], sid, out, n)
                        IN IF w \in hit THEN Handler(seen, out, n) ELSE seen]
        /\ outputHandlers' = IF hit # {} /\ HandlerSettles(out)
                             THEN offOutput(outputHandlers, {sid})
                             ELSE outputHandlers
  /\ UNCHANGED <<rtVars, lastCall, limits, instance, returned, nextId, activeSessions, pty, spawnPc,
                 graceStops, stopReturned, stopped>>

\* the waiter slot the next waitForCompletion call takes
Issued == Cardinality({w \in Waiters : waiter[w].st # "unused"})
FreeWaiter == Issued + 1

\* waitForCompletion(key, timeoutMs): arm the timer, register the handler
WaitForCompletion(key) ==
  /\ IF ensureInitialized
     THEN /\ Issued < limits.waiters
          /\ Called("waitForCompletion", "suspended")
          /\ waiter' = [Lose(waiter, {key}, "replaced") EXCEPT
                          ![FreeWaiter] = [NoWaiter EXCEPT !.key = key, !.st = "pending",
                                                           !.timer = "armed"]]
          /\ outputHandlers' = onOutput(outputHandlers, key, WaitHandler(FreeWaiter))
     ELSE /\ Called("waitForCompletion", "NotInitialized")
          /\ UNCHANGED <<waiter, outputHandlers>>
  /\ UNCHANGED <<rtVars, spVars, buffer>>

\* the setTimeout callback of waitForCompletion: offOutput, then reject
TimerFire(w) ==
  /\ Quiescent
  /\ waiter[w].timer = "armed"
  /\ outputHandlers' = offOutput(outputHandlers, TimeoutDeregisters(w))
  /\ waiter' = [Lose(waiter, TimeoutDeregisters(w) \ {k \in Keys : w \in Registered(k)},
                     "timer")
                  EXCEPT ![w] = TimeoutRejects([waiter[w] EXCEPT !.timer = "fired"])]
  /\ UNCHANGED <<rtVars, spVars, buffer, lastCall, limits, instance, returned>>

\* communicator.onOutput(key, handler) with a handler of the host's own
OnOutput(key) ==
  /\ outputHandlers[key] # HostHandler
  /\ outputHandlers' = onOutput(outputHandlers, key, HostHandler)
  /\ waiter' = Lose(waiter, {key}, "onOutput")
  /\ UNCHANGED <<rtVars, spVars, buffer, lastCall, limits, instance, returned>>

\* communicator.offOutput(key) called by the host
OffOutput(key) ==
  /\ outputHandlers[key] # NoHandler
  /\ outputHandlers' = offOutput(outputHandlers, {key})
  /\ waiter' = Lose(waiter, {key}, "offOutput")
  /\ UNCHANGED <<rtVars, spVars, buffer, lastCall, limits, instance, returned>>

\* shutdown() up to `await this.spawner.cleanup()`: every stop(id, true) of
\* cleanup() has run to its end
ShutdownBegin ==
  /\ shutdownPc = "idle"
  /\ \E F \in KillThrows(CleanupTargets) :
       /\ ForceStop(CleanupReaches(CleanupTargets, F), F)
       /\ shutdownPc' = IF F = {} THEN "cleanup" ELSE "failing"
  /\ UNCHANGED <<isInitialized, restartPending, nextId, spawnPc, graceStops,
                 coVars, lastCall, limits, instance, returned>>

\* shutdown() after the await when a stop of cleanup() rejected: the error is
\* logged and thrown again; the handlers and isInitialized stay as they are
ShutdownFail ==
  /\ shutdownPc = "failing"
  /\ shutdownPc' = "idle"
  /\ UNCHANGED <<isInitialized, restartPending, spVars, coVars, lastCall, limits,
                 instance, returned>>

\* what communicator.cleanup() leaves in the handler table
CleanupHandlers == [k \in Keys |-> NoHandler]

\* shutdown() after the await: communicator.cleanup(), isInitialized = false
ShutdownFinish ==
  /\ shutdownPc = "cleanup"
  /\ shutdownPc' = "idle"
  /\ outputHandlers' = CleanupHandlers
  /\ waiter' = Lose(waiter, Keys, "shutdown")
  /\ isInitialized' = FALSE
  /\ UNCHANGED <<restartPending, spVars, buffer, lastCall, limits, instance, returned>>

\* restart(): `const { task, workdir } = sessionData.session`
RestartTask(key) == session[CHOOSE s \in Entry(key) : TRUE].task

\* restart(): spawn({ task, continue: false }), no resumeSessionId
RestartMode == "fresh"

\* restartSession(key) up to `await this.stop(sessionId, true)`
RestartSession(key) ==
  /\ IF ~ensureInitialized
     THEN /\ Called("restartSession", "NotInitialized")
          /\ UNCHANGED <<restartPending, spVars>>
     ELSE IF Entry(key) = {}
     THEN /\ Called("restartSession", "NotFound")
          /\ UNCHANGED <<restartPending, spVars>>
     ELSE /\ nextId + Len(restartPending) < limits.sessions
          /\ \E F \in KillThrows(Entry(key)) :
               /\ ForceStop(Entry(key), F)
               /\ Called("restartSession", IF F = {} THEN "suspended" ELSE "KillFailed")
               /\ restartPending' =
                    IF F = {}
                    THEN Append(restartPending,
                                [task |-> RestartTask(key),
                                 old |-> Detail(CHOOSE s \in Entry(key) : TRUE, 0)])
                    ELSE restartPending
          /\ UNCHANGED <<nextId, spawnPc, graceStops>>
  /\ UNCHANGED <<isInitialized, shutdownPc, coVars>>

\* restart() after the await: spawn({task, continue: false})
RestartRespawn ==
  /\ restartPending # <<>>
  /\ restartPending' = Tail(restartPending)
  /\ \E id \in generateSessionId :
       SpawnBegin(RestartMode, Head(restartPending).task, id, Head(restartPending).old)
  /\ UNCHANGED <<isInitialized, shutdownPc, coVars, lastCall, limits, instance, returned>>

WriteOps == {"sendMessage", "sendCommand", "interruptSession"}

\* sendMessage / sendCommand / interruptSession: spawner.write(key, text)
Write(op, key) ==
  /\ IF ~ensureInitialized
     THEN Called(op, "NotInitialized") /\ UNCHANGED pty
     ELSE IF ~WriteFinds(key)
     THEN Called(op, "NotFound") /\ UNCHANGED pty
     ELSE /\ Called(op, "ok")
          /\ pty' = IF op = "interruptSession"
                    THEN [pty EXCEPT ![key] = Signal(@, "INT", TRUE)]
                    ELSE [pty EXCEPT ![key] = Wrote(@, "text")]
  /\ UNCHANGED <<rtVars, coVars, nextId, activeSessions, session, spawnPc,
                 graceStops, stopReturned, stopped, events>>

\* the messages and commands a host sends, as texts, and the optional
\* argument string of a command: no text (undefined) or one text
LineEnd == <<"\n">>
Messages == {<<>>, <<"hi">>, <<"hi", "\n">>, <<"\n">>, <<"hi", "\r">>,
             <<"hi", "\n", "there">>, <<"hi", "\n", "\n">>}
Commands == {<<"/ralph-loop">>, <<"/clear", "\n">>}
CommandArgs == {{}, {<<>>}, {<<"--max-iterations", " ", "3">>}}

\* faulty variant of formatMessage: a line end is appended to every message
formatMessageAlways(message) == message \o LineEnd

\* formatMessage(message)
formatMessage(message) ==
  IF EndsWith(message, LineEnd) THEN message ELSE message \o LineEnd

\* `args ? command + ' ' + args : command`: undefined and '' are falsy
fullCommand(command, args) ==
  IF args # {} /\ args # {<<>>}
  THEN command \o <<" ">> \o (CHOOSE a \in args : TRUE)
  ELSE command

\* spawner.write(key, text) called by the communicator: the text is handed
\* over, and written to the pty when the session is found
HandToWrite(op, key, given, text) ==
  /\ returned' = [type |-> "write", op |-> op, key |-> key, given |-> given,
                   text |-> text, found |-> WriteFinds(key)]
  /\ pty' = IF WriteFinds(key) THEN [pty EXCEPT ![key] = Wrote(@, "text")] ELSE pty
  /\ UNCHANGED <<rtVars, coVars, lastCall, limits, instance, nextId, activeSessions,
                 session, spawnPc, graceStops, stopReturned, stopped, events>>

\* communicator.sendMessage(key, message)
SendMessage(key, message) ==
  HandToWrite("sendMessage", key, <<message>>, formatMessage(message))

\* communicator.sendCommand(key, command, args)
SendCommand(key, command, args) ==
  HandToWrite("sendCommand", key, <<command, args>>, fullCommand(command, args) \o LineEnd)

\* communicator.respondToPrompt(key, response): spawner.write(key, text)
RespondToPrompt(key) ==
  /\ IF ~WriteFinds(key)
     THEN Called("respondToPrompt", "NotFound") /\ UNCHANGED pty
     ELSE /\ Called("respondToPrompt", "ok")
          /\ pty' = [pty EXCEPT ![key] = Wrote(@, "text")]
  /\ UNCHANGED <<rtVars, coVars, nextId, activeSessions, session, spawnPc,
                 graceStops, stopReturned, stopped, events>>

ReadOps == {"getSession", "getAllSessions"}

\* getSession / getAllSessions: registry reads
Read(op) ==
  /\ Called(op, IF ensureInitialized THEN "ok" ELSE "NotInitialized")
  /\ UNCHANGED <<rtVars, spVars, coVars>>

\* sessions, stops, process callbacks and shutdown
Next ==
  \/ \E mode \in limits.modes : StartSession(mode)
  \/ \E sid \in Sids : SpawnSettled(sid)
  \/ \E key \in Known, force \in BOOLEAN : StopSession(key, force)
  \/ \E sid \in Sids : StopWake(sid)
  \/ \E sid \in Sids : ProcessExit(sid)
  \/ \E sid \in Sids, chunk \in limits.chunks : Output(sid, chunk)
  \/ ShutdownBegin
  \/ ShutdownFinish

Spec == Init /\ [][Next]_vars

\* the completion-wait protocol over resumed sessions
WaitNext ==
  \/ \E mode \in limits.modes : StartSession(mode)
  \/ \E key \in Known, force \in BOOLEAN : StopSession(key, force)
  \/ \E sid \in Sids : StopWake(sid)
  \/ \E sid \in Sids : ProcessExit(sid)
  \/ \E sid \in Sids, chunk \in limits.chunks : Output(sid, chunk)
  \/ \E key \in Known : WaitForCompletion(key)
  \/ \E w \in Waiters : TimerFire(w)
  \/ \E key \in Known : OnOutput(key)
  \/ \E key \in Known : OffOutput(key)
  \/ ShutdownBegin
  \/ ShutdownFinish

WaitSpec == WaitInit /\ [][WaitNext]_vars

\* The event loop runs a timer callback that is due once the microtask queue
\* has drained, and always drains the microtask queue.
FairWaitSpec ==
  /\ FairWaitInit
  /\ [][WaitNext]_vars
  /\ WF_vars(ShutdownFinish)
  /\ \A w \in Waiters : SF_vars(TimerFire(w))

\* every host call of the facade, with the process callbacks
ApiNext ==
  \/ \E mode \in limits.modes : StartSession(mode)
  \/ \E sid \in Sids : SpawnSettled(sid)
  \/ \E key \in Known, force \in BOOLEAN : StopSession(key, force)
  \/ \E sid \in Sids : ProcessExit(sid)
  \/ ShutdownBegin
  \/ ShutdownFinish
  \/ \E key \in Known : WaitForCompletion(key)
  \/ \E w \in Waiters : TimerFire(w)
  \/ \E key \in Known : RestartSession(key)
  \/ RestartRespawn
  \/ \E op \in WriteOps, key \in Known : Write(op, key)
  \/ \E op \in ReadOps : Read(op)

ApiSpec == ApiInit /\ [][ApiNext]_vars

\* the registry and what the processes are sent, under every host call
CallNext ==
  \/ \E mode \in limits.modes : StartSession(mode)
  \/ \E sid \in Sids : SpawnSettled(sid)
  \/ \E key \in Known : StopSession(key, TRUE)
  \/ \E sid \in Sids : ProcessExit(sid)
  \/ ShutdownBegin
  \/ ShutdownFinish
  \/ \E key \in Known : RestartSession(key)
  \/ RestartRespawn
  \/ \E op \in WriteOps, key \in Known : Write(op, key)
  \/ \E key \in Known : RespondToPrompt(key)
  \/ \E op \in ReadOps : Read(op)

CallSpec == CallInit /\ [][CallNext]_vars

\* sessions, stops, restarts, process callbacks and shutdown
RestartNext ==
  \/ \E mode \in limits.modes : StartSession(mode)
  \/ \E sid \in Sids : SpawnSettled(sid)
  \/ \E key \in Known, force \in BOOLEAN : StopSession(key, force)
  \/ \E sid \in Sids : StopWake(sid)
  \/ \E sid \in Sids : ProcessExit(sid)
  \/ ShutdownBegin
  \/ ShutdownFinish
  \/ \E key \in Known : RestartSession(key)
  \/ RestartRespawn

RestartSpec == RestartInit /\ [][RestartNext]_vars

\* spawns, restarts, process exits and shutdown, by session id
IdNext ==
  \/ \E mode \in limits.modes : StartSession(mode)
  \/ \E sid \in Sids : SpawnSettled(sid)
  \/ \E sid \in Sids : ProcessExit(sid)
  \/ \E key \in Known : RestartSession(key)
  \/ RestartRespawn
  \/ ShutdownBegin
  \/ ShutdownFinish

IdSpec == IdInit /\ [][IdNext]_vars

\* a session that writes output until its process exits
BufNext ==
  \/ \E mode \in limits.modes : StartSession(mode)
  \/ \E sid \in Sids, chunk \in limits.chunks : Output(sid, chunk)
  \/ \E sid \in Sids : ProcessExit(sid)

BufSpec == BufInit /\ [][BufNext]_vars

\* waits on sessions that write side by side
IndepNext ==
  \/ \E mode \in limits.modes : StartSession(mode)
  \/ \E sid \in Sids, chunk \in limits.chunks : Output(sid, chunk)
  \/ \E key \in Known : WaitForCompletion(key)
  \/ \E w \in Waiters : TimerFire(w)
  \/ \E sid \in Sids : ProcessExit(sid)

IndepSpec == IndepInit /\ [][IndepNext]_vars

\* output handlers registered, replaced and cleared while sessions write
HandlerNext ==
  \/ \E mode \in limits.modes : StartSession(mode)
  \/ \E sid \in Sids, chunk \in limits.chunks : Output(sid, chunk)
  \/ \E key \in Known : WaitForCompletion(key)
  \/ \E w \in Waiters : TimerFire(w)
  \/ \E key \in Known : OnOutput(key)
  \/ \E key \in Known : OffOutput(key)

HandlerSpec == HandlerInit /\ [][HandlerNext]_vars

\* messages and commands sent to sessions that start and exit
SendNext ==
  \/ \E mode \in limits.modes : StartSession(mode)
  \/ \E sid \in Sids : ProcessExit(sid)
  \/ \E key \in Known, message \in Messages : SendMessage(key, message)
  \/ \E key \in Known, command \in Commands, args \in CommandArgs :
       SendCommand(key, command, args)

SendSpec == SendInit /\ [][SendNext]_vars

\* sessions that start, write, are stopped by force and exit while the
\* host listens
EventNext ==
  \/ \E mode \in limits.modes : StartSession(mode)
  \/ \E sid \in Sids : SpawnSettled(sid)
  \/ \E key \in Known : StopSession(key, TRUE)
  \/ \E sid \in Sids : ProcessExit(sid)
  \/ \E sid \in Sids, chunk \in limits.chunks : Output(sid, chunk)
  \/ \E key \in Known : OnOutput(key)

EventSpec == EventInit /\ [][EventNext]_vars

\* construction, then the calls of a host that holds an instance
CtorNext ==
  \/ Construct
  \/ Constructed /\ \E probe \in Probes : CheckAvailability(probe)
  \/ Constructed /\ \E mode \in limits.modes : StartSession(mode)
  \/ Constructed /\ \E sid \in Sids : ProcessExit(sid)
  \/ Constructed /\ \E op \in ReadOps : Read(op)
  \/ Constructed /\ ShutdownBegin
  \/ Constructed /\ ShutdownFinish

CtorSpec == CtorInit /\ [][CtorNext]_vars

\* one parser fed chunk after chunk
ParseNext == \E output \in Written(limits.parser) : Parse(output)

ParseSpec == ParseInit /\ [][ParseNext]_vars

\* the same, with stops that fail
FaultNext ==
  \/ \E mode \in limits.modes : StartSession(mode)
  \/ \E sid \in Sids : SpawnSettled(sid)
  \/ \E key \in Known, force \in BOOLEAN : StopSession(key, force)
  \/ \E sid \in Sids : StopWake(sid)
  \/ \E sid \in Sids : ProcessExit(sid)
  \/ ShutdownBegin
  \/ ShutdownFinish
  \/ ShutdownFail
  \/ \E key \in Known : RestartSession(key)
  \/ RestartRespawn

FaultSpec == FaultInit /\ [][FaultNext]_vars

(* ------------------------------------------------------------------------ *)
(* waitForCompletion                                                        *)
(* ------------------------------------------------------------------------ *)
IssuedWaits == {w \in Waiters : waiter[w].st # "unused"}

\* the handler of w was never taken out of the table by anything but w itself
Undisturbed(w) == w \in IssuedWaits /\ waiter[w].lost = "no"

\* an error output of w's session arrived before its timer fired and before
\* any complete output
ErrorFirst(w) ==
  /\ waiter[w].firstError # 0
  /\ waiter[w].firstComplete = 0 \/ waiter[w].firstError < waiter[w].firstComplete

\* a complete output of w's session arrived before its timer fired and before
\* any error output
CompleteFirst(w) ==
  /\ waiter[w].firstComplete # 0
  /\ waiter[w].firstError = 0 \/ waiter[w].firstComplete < waiter[w].firstError

\* nobody stopped the session and its process has not exited
Unstopped(k) == k \in activeSessions /\ graceStops[k] = 0

FirstErrorRejects ==
  \A w \in Waiters :
    (/\ w \in IssuedWaits
     /\ waiter[w].lost \in {"no", "replaced"}
     /\ Unstopped(waiter[w].key)
     /\ ErrorFirst(w)) =>
      (waiter[w].st = "rejectedError" /\ waiter[w].result = waiter[w].firstError)

\* The handler's own logic, for a wait whose handler is still the registered
\* one: it rejects with the task failure on the first error output that
\* precedes every complete output, and with nothing else; raw, prompt and
\* status outputs leave it pending with its handler registered.
RegisteredErrorRejects ==
  \A w \in IssuedWaits :
    /\ waiter[w].st = "rejectedError" =>
         /\ ErrorFirst(w)
         /\ waiter[w].result = waiter[w].firstError
         /\ waiter[w].timer = "cleared"
    /\ Undisturbed(w) =>
         /\ ErrorFirst(w) =>
              (waiter[w].st = "rejectedError" /\ waiter[w].result = waiter[w].firstError)
         /\ waiter[w].st = "pending" => outputHandlers[waiter[w].key] = WaitHandler(w)

\* C3: the first waiter is never displaced by a second waitForCompletion so
\* that a complete output arriving before its timeout leaves it unresolved.
NeverDisplaced ==
  \A w \in Waiters :
    ~(waiter[w].lost = "replaced" /\ waiter[w].st = "pending" /\ waiter[w].firstComplete # 0)

\* C5: a wait whose session the caller abandoned (stopSession returned, or
\* shutdown completed) is settled by that call.
AbandonSettles ==
  \A w \in Waiters :
    waiter[w].lost \in {"stopSession", "shutdown"} => waiter[w].st # "pending"

\* C4: every wait is eventually settled once its timer is allowed to fire,
\* whatever happened to its handler and its session.
EveryWaitSettles ==
  \A w \in Waiters : (waiter[w].st = "pending") ~> (waiter[w].st # "pending")

\* a wait whose handler a later waitForCompletion replaced, and one on an id
\* no session has, were both settled by their timers
EveryWaitSettlesWitness ==
  \E w, v \in Waiters :
    /\ waiter[w].lost = "replaced" /\ waiter[w].st = "rejectedTimeout"
    /\ waiter[v].key = 0 /\ waiter[v].st = "rejectedTimeout"

(* ------------------------------------------------------------------------ *)
(* stop() and the process-exit callback                                     *)
(* ------------------------------------------------------------------------ *)

\* C6: once a stop() that found the session registered has returned, forced
\* or graceful, the record is in state `stopped`, the registry entry is gone
\* and a `stopped` event was emitted; a forced stop sends its signal, removes
\* the entry and returns in one step, so no state has the kill signal sent
\* and the forced stop still under way.
StopReturnsStopped ==
  \A s \in Sids :
    /\ stopReturned[s] # {} =>
         /\ session[s].state = "stopped"
         /\ s \notin activeSessions
         /\ Len(stopped[s]) > 0
    /\ "KILL" \in pty[s].signals =>
         /\ "force" \in stopReturned[s]
         /\ s \notin activeSessions

\* a forced and a graceful stop of one session have both returned
StopReturnsStoppedWitness ==
  \E s \in Sids : stopReturned[s] = {"force", "graceful"}

\* C7: across stop() calls and the process-exit callback, exactly one
\* `stopped` event is emitted per session.
OneStoppedEvent == \A s \in Sids : Len(stopped[s]) <= 1

\* C8: the terminate signal follows the interrupt byte, is sent only by the
\* continuation after the grace window and only to a session that is still
\* registered at that moment: never after the exit callback ran or after
\* another stop removed the session (so never together with a kill signal).
EscalatesOnlyIfRegistered ==
  \A s \in Sids :
    /\ ~pty[s].lateTerm
    /\ "TERM" \in pty[s].signals =>
         /\ "INT" \in pty[s].signals
         /\ "graceful" \in stopReturned[s]
         /\ "KILL" \notin pty[s].signals

\* the process exited during the grace window and the stop returned without
\* a terminate signal
EscalatesOnlyIfRegisteredWitness ==
  \E s \in Sids :
    /\ "graceful" \in stopReturned[s]
    /\ pty[s].proc = "exited"
    /\ pty[s].signals = {"INT"}
    /\ graceStops[s] = 0

\* C9: when the process ignored the interrupt for the whole grace window (the
\* stop escalated to the terminate signal), every `stopped` event observed
\* for the session carries an exit code.
EscalatedStopHasExitCode ==
  \A s \in Sids :
    "TERM" \in pty[s].signals =>
      \A i \in 1..Len(stopped[s]) : stopped[s][i]

(* ------------------------------------------------------------------------ *)
(* shutdown()                                                               *)
(* ------------------------------------------------------------------------ *)

\* C10: once shutdown() has completed the instance stays uninitialized, and
\* every host call made from then on ends with the not-initialized error,
\* spawns no process, registers no session and no handler.
NotInitializedForever ==
  [][~isInitialized =>
       /\ ~isInitialized'
       /\ lastCall' # lastCall =>
            /\ lastCall'.err = "NotInitialized"
            /\ nextId' = nextId
            /\ pty' = pty
            /\ activeSessions' = activeSessions
            /\ outputHandlers' = outputHandlers
            /\ waiter' = waiter]_vars

\* after shutdown() a waitForCompletion on a session that an in-flight
\* restart registered was refused
NotInitializedForeverWitness ==
  /\ ~isInitialized
  /\ shutdownPc = "idle"
  /\ lastCall = [op |-> "waitForCompletion", err |-> "NotInitialized"]
  /\ activeSessions # {}
  /\ \A k \in Keys : outputHandlers[k] = NoHandler

\* C11: once shutdown() has completed, the registry is empty and stays empty,
\* and every process the runtime spawned has been sent a kill or terminate
\* signal or has exited, whatever was in flight when shutdown() was called.
ShutdownLeavesNothing ==
  (~isInitialized /\ shutdownPc = "idle") =>
    /\ activeSessions = {}
    /\ \A s \in Sids :
         pty[s].proc = "alive" => pty[s].signals \cap {"KILL", "TERM"} # {}

(* ------------------------------------------------------------------------ *)
(* cleanup()                                                                *)
(* ------------------------------------------------------------------------ *)

\* C12: the step in which shutdown() runs cleanup() stops every session that
\* is registered at that moment: each one is either stopped (kill signal
\* sent, state `stopped`, removed from the registry, one more `stopped`
\* event), or its own pty.kill() threw and it is as it was. A stop that
\* fails neither blocks nor fails the stop of another session, and all the
\* stops have finished when cleanup() suspends.
CleanupStopsTheRest ==
  [][(shutdownPc = "idle" /\ shutdownPc' # "idle") =>
       \A s \in activeSessions :
         \/ /\ s \notin activeSessions'
            /\ session'[s].state = "stopped"
            /\ "KILL" \in pty'[s].signals
            /\ Len(stopped'[s]) = Len(stopped[s]) + 1
         \/ /\ pty'[s].threw
            /\ s \in activeSessions'
            /\ session'[s] = session[s]
            /\ stopped'[s] = stopped[s]]_vars

\* cleanup() ran over two registered sessions; the stop of the first one
\* failed and the second one was stopped all the same
CleanupStopsTheRestWitness ==
  /\ shutdownPc = "failing"
  /\ \E s, u \in Sids :
       /\ s < u
       /\ s \in activeSessions /\ pty[s].threw /\ pty[s].signals = {}
       /\ u \notin activeSessions /\ pty[u].proc = "alive" /\ pty[u].signals = {"KILL"}
       /\ session[u].state = "stopped" /\ Len(stopped[u]) = 1

(* ------------------------------------------------------------------------ *)
(* calls on an id that is not in the registry                               *)
(* ------------------------------------------------------------------------ *)

\* C13: a write (through sendMessage, sendCommand or interruptSession) to an
\* id that is not in the registry fails with the not-found error and writes
\* nothing to any process; a stop of such an id, forced or not, returns
\* without error, emits no event, sends no signal and leaves the registry and
\* the session records as they are.
UnknownWriteFailsStopReturns ==
  [][/\ \A op \in WriteOps, key \in Known :
          (isInitialized /\ key \notin activeSessions /\ Write(op, key)) =>
            (lastCall' = [op |-> op, err |-> "NotFound"] /\ pty' = pty)
     /\ \A key \in Known, force \in BOOLEAN :
          (isInitialized /\ key \notin activeSessions /\ StopSession(key, force)) =>
            /\ lastCall' = [op |-> "stopSession", err |-> "ok"]
            /\ UNCHANGED <<activeSessions, session, pty, stopped, stopReturned,
                           graceStops>>]_vars

\* a stop of an id returned without error when no session had ever been
\* spawned
UnknownWriteFailsStopReturnsWitness ==
  /\ lastCall = [op |-> "stopSession", err |-> "ok"]
  /\ nextId = 0

\* C14: sendMessage, sendCommand, interruptSession, respondToPrompt and
\* restartSession on an id that is not in the registry (never spawned,
\* stopped or exited) reject with the not-found error, write nothing to any
\* process, start no process, and leave the registry and the handler table
\* as they are.
NotFoundChangesNothing ==
  [][/\ \A op \in WriteOps, key \in Known :
          (isInitialized /\ key \notin activeSessions /\ Write(op, key)) =>
            /\ lastCall' = [op |-> op, err |-> "NotFound"]
            /\ UNCHANGED <<spVars, coVars, restartPending>>
     /\ \A key \in Known :
          (key \notin activeSessions /\ RespondToPrompt(key)) =>
            /\ lastCall' = [op |-> "respondToPrompt", err |-> "NotFound"]
            /\ UNCHANGED <<spVars, coVars, restartPending>>
     /\ \A key \in Known :
          (isInitialized /\ key \notin activeSessions /\ RestartSession(key)) =>
            /\ lastCall' = [op |-> "restartSession", err |-> "NotFound"]
            /\ UNCHANGED <<spVars, coVars, restartPending>>]_vars

\* a message sent to an id that is not registered (the first session's
\* process had exited) was rejected, while another session was registered
\* and was sent nothing
NotFoundChangesNothingWitness ==
  /\ lastCall = [op |-> "sendMessage", err |-> "NotFound"]
  /\ activeSessions = {2}
  /\ pty[1].proc = "exited"
  /\ pty[2].written = {}

\* C15: a waitForCompletion on an id no session has is rejected with the
\* not-found error when it is called: it is never left pending and never
\* rejected with the timeout error.
UnknownWaitIsNotFound ==
  \A w \in IssuedWaits :
    waiter[w].key \notin 1..nextId => waiter[w].st \notin {"pending", "rejectedTimeout"}

(* ------------------------------------------------------------------------ *)
(* restart()                                                                *)
(* ------------------------------------------------------------------------ *)

\* C16: in the step in which a restart resolves (the spawn of the session it
\* started returns after its settle delay), the old session is not in the
\* registry and its state is `stopped`; the new session has another id than
\* the old one, carries the old session's task, was started without resume
\* or continue flags, and is registered.
RestartGivesFreshSession ==
  [][\A n \in Sids :
       (spawnPc[n] = "settling" /\ spawnPc'[n] = "returned" /\ session[n].restartOf # 0) =>
         LET o == session[n].restartOf
         IN /\ o \notin activeSessions'
            /\ session'[o].state = "stopped"
            /\ session'[n].sessionId # session'[o].sessionId
            /\ session'[n].task = session'[o].task
            /\ pty'[n].args = "fresh"
            /\ n \in activeSessions']_vars

\* the restart of a resumed session that carried the second task has
\* resolved: the new session is registered and was sent that task
RestartGivesFreshSessionWitness ==
  \E n \in Sids :
    /\ session[n].restartOf # 0
    /\ pty[session[n].restartOf].args = "resume"
    /\ spawnPc[n] = "returned"
    /\ session[n].task = 2
    /\ pty[n].written = {"task"}
    /\ n \in activeSessions

\* C17: any two sessions this provider spawned have different session ids,
\* so that a spawn never replaces the registry entry of another session.
SessionIdsUnique ==
  \A a, b \in 1..nextId : a # b => session[a].sessionId # session[b].sessionId

\* C19: in every reachable state a spawned session is in the registry if and
\* only if its state is not stopped, so that getSession / getAllSessions
\* return exactly the sessions that were neither stopped nor exited.
RegisteredIffNotStopped ==
  \A s \in 1..nextId : s \in activeSessions <=> session[s].state # "stopped"

\* C18: in every reachable state the output buffer of a session holds at
\* most 100 entries, and after n chunks it holds exactly the most recent
\* min(n, 100) chunks in the order they arrived.
OutputBufferKeepsMostRecent ==
  \A s \in 1..nextId :
    LET n == session[s].outputs
        b == session[s].outputBuffer
    IN /\ Len(b) <= BufferCapacity
       /\ Len(b) = IF n < BufferCapacity THEN n ELSE BufferCapacity
       /\ \A i \in 1..Len(b) : b[i] = n - Len(b) + i

\* a session whose buffer has overflowed twice
OutputBufferKeepsMostRecentWitness ==
  \E s \in 1..nextId :
    /\ session[s].outputs = BufferCapacity + 2
    /\ Len(session[s].outputBuffer) = BufferCapacity
    /\ Head(session[s].outputBuffer) = 3

\* C20: sessions are independent: a wait on a session resolves only when
\* that session itself has written a completion marker and rejects with an
\* error only when that session itself has written an error marker; what
\* another session writes never settles it.
WaitSettlesOnOwnOutput ==
  \A w \in Waiters :
    /\ waiter[w].st = "resolved" => session[waiter[w].key].own.done
    /\ waiter[w].st = "rejectedError" =>
         (session[waiter[w].key].own.err \/ session[waiter[w].key].own.done)

\* C21: an output chunk or a process exit of one session changes the record
\* and the registry entry of that session only: the record (state, output
\* buffer) and the registry entry of every other session stay as they were.
OutputAndExitTouchOwnSession ==
  [][\A sid \in Sids :
       ((\E chunk \in limits.chunks : Output(sid, chunk)) \/ ProcessExit(sid)) =>
         \A o \in Sids \ {sid} :
           /\ session'[o] = session[o]
           /\ (o \in activeSessions') = (o \in activeSessions)]_vars

\* C22: when the output of a session has been classified as a complete
\* result, the runtime eventually emits a `completed` event for that session
\* to the host.
CompletionEmitsCompleted ==
  \A s \in Sids :
    (s \in 1..nextId /\ Classify(session[s].own).isComplete) ~> ("completed" \in HostEvents(s))

\* C23: constructing the runtime with a runtime type other than 'claudeCode',
\* an empty agent id or an empty workspace always throws a configuration
\* error and leaves no usable instance; with all three valid the constructor
\* succeeds and the instance is initialized with an empty registry.
ConstructionChecksConfig ==
  /\ [](instance = "threw" => ~isInitialized /\ nextId = 0 /\ activeSessions = {})
  /\ [][Construct =>
          LET a == limits.agent
          IN IF a.runtime # "claudeCode" \/ a.id = "" \/ a.workspace = ""
             THEN /\ instance' = "threw"
                  /\ lastCall'.err \in {"MissingId", "MissingWorkspace", "InvalidRuntime"}
                  /\ ~isInitialized'
             ELSE /\ instance' = "constructed"
                  /\ lastCall'.err = "ok"
                  /\ isInitialized'
                  /\ activeSessions' = {}
                  /\ nextId' = 0]_vars

\* a configuration in which only the runtime type is wrong was refused
ConstructionChecksConfigWitness ==
  /\ limits.agent.id # ""
  /\ limits.agent.workspace # ""
  /\ limits.agent.runtime = "default"
  /\ instance = "threw"
  /\ lastCall = [op |-> "new", err |-> "InvalidRuntime"]

\* C24: checkAvailability() never throws, whether or not the runtime is
\* initialized: it returns available = true with a version when the probe
\* succeeds and available = false with an error when the probe fails, and it
\* changes neither the registry nor the initialized flag.
AvailabilityNeverThrows ==
  [][\A probe \in Probes :
       CheckAvailability(probe) =>
         /\ lastCall'.err = "ok"
         /\ returned'.available = probe.ok
         /\ probe.ok => "version" \in DOMAIN returned' /\ "error" \notin DOMAIN returned'
         /\ ~probe.ok => "error" \in DOMAIN returned' /\ returned'.error = probe.message
         /\ UNCHANGED <<isInitialized, spVars, coVars>>]_vars

\* a failed probe was reported by a runtime that had been shut down
AvailabilityNeverThrowsWitness ==
  /\ ~isInitialized
  /\ instance = "constructed"
  /\ lastCall = [op |-> "checkAvailability", err |-> "ok"]
  /\ returned = [available |-> FALSE, error |-> "ENOENT"]

\* C25: when startSession resolves for a fresh session, the session it
\* returns is in state `starting` and is the session the registry holds
\* under its id.
FreshSessionResolvesStarting ==
  [][\A s \in Sids :
       (spawnPc[s] = "settling" /\ spawnPc'[s] = "returned") =>
         /\ session'[s].state = "starting"
         /\ Entry(s)' = {s}]_vars

\* the text behind the first 'Error:' of a text, without the whitespace it
\* begins with, up to the end of its line
FirstError(text) ==
  Smallest({i \in 1..Len(text) : /\ i + Len(ErrorColon) - 1 <= Len(text)
                                 /\ SubSeq(text, i, i + Len(ErrorColon) - 1) = ErrorColon})
SkipSpaces(r) == SubSeq(r, Largest(SpaceRun(r)) + 1, Len(r))
LineOf(r) ==
  SubSeq(r, 1, Largest({e \in 0..Len(r) : \A j \in 1..e : r[j] \notin LineTerminators}))
MessageBehindError(text) == LineOf(SkipSpaces(Behind(text, FirstError(text))))

\* C26: each result of the heuristic parser is decided on the accumulated
\* text: a completion marker gives `result` with isComplete; otherwise an
\* error marker gives `error`, and where the text holds 'Error:' its message
\* is the text behind 'Error:' up to the line end; otherwise a trailing '?'
\* or 'Please provide' gives `prompt`; otherwise `raw` with the chunk as
\* content.
HeuristicParseByPrecedence ==
  (limits.parser = "default" /\ returned # NoValue) =>
    IF Includes(buffer, TaskCompleted) \/ Includes(buffer, Done)
    THEN returned.type = "result" /\ returned.isComplete
    ELSE IF Includes(buffer, ErrorColon) \/ Includes(buffer, Failed)
    THEN /\ returned.type = "error"
         /\ Includes(buffer, ErrorColon) => returned.error = MessageBehindError(buffer)
    ELSE IF EndsWith(buffer, QuestionMark) \/ Includes(buffer, PleaseProvide)
    THEN returned.type = "prompt"
    ELSE returned.type = "raw" /\ EndsWith(buffer, returned.content)

\* the tag of a decoded value: the `type` member of a record, if it has one
Tagged(data, tag) ==
  /\ data.kind = "object"
  /\ \E m \in data.members : m[1] = "\"type\"" /\ m[2] = JsonValue(tag)

\* C27: the structured parser never throws and decides on the current chunk
\* alone: a record tagged `completion` gives `result` with isComplete, a
\* record tagged `error` gives `error`, any other value that decodes gives
\* `status`, and a chunk that does not decode gives `raw` with the chunk as
\* content.
StructuredParseByTag ==
  [][\A output \in JsonTexts :
       (limits.parser = "json" /\ Parse(output)) =>
         LET data == JSONParse(output)
         IN IF data = SyntaxError
            THEN returned' = [type |-> "raw", content |-> output]
            ELSE IF Tagged(data, "\"completion\"")
            THEN returned'.type = "result" /\ returned'.isComplete
            ELSE IF Tagged(data, "\"error\"")
            THEN returned'.type = "error"
            ELSE returned'.type = "status"]_vars

\* C28: a result of either reference parser is marked complete only if its
\* kind is `result`.
CompleteOnlyIfResult ==
  ("isComplete" \in DOMAIN returned /\ returned.isComplete) => returned.type = "result"

\* each parser has marked a result complete
CompleteOnlyIfResultWitness ==
  /\ limits.parser = "default"
  /\ returned.type = "result"
  /\ returned.isComplete
  /\ Includes(buffer, ErrorColon)
  /\ Includes(buffer, Done)


\* C29: the handler table holds at most one output handler per session:
\* onOutput(s, h2) leaves h2 and nothing else under s, offOutput(s) leaves no
\* handler under s, neither changes the handler of another session, and a
\* handler that was replaced or cleared is never invoked again (a wait whose
\* handler left the table is settled by nothing but its own timer).
OneHandlerPerSession ==
  [][/\ \A key \in Keys :
          /\ OnOutput(key) =>
                /\ outputHandlers'[key] = HostHandler
                /\ \A o \in Keys \ {key} : outputHandlers'[o] = outputHandlers[o]
          /\ WaitForCompletion(key) =>
                /\ outputHandlers'[key] = WaitHandler(FreeWaiter)
                /\ \A o \in Keys \ {key} : outputHandlers'[o] = outputHandlers[o]
          /\ OffOutput(key) =>
                /\ outputHandlers'[key] = NoHandler
                /\ \A o \in Keys \ {key} : outputHandlers'[o] = outputHandlers[o]
     /\ \A w \in Waiters :
          (waiter[w].lost # "no" /\ waiter'[w].settles > waiter[w].settles) =>
            (waiter[w].timer = "armed" /\ waiter'[w].timer = "fired")]_vars

\* the handler of a wait was replaced by the host's, its session then wrote
\* a completion marker, and the handler of the other session is still there
OneHandlerPerSessionWitness ==
  \E w \in Waiters, o \in Sids :
    /\ waiter[w].st = "pending"
    /\ waiter[w].lost = "onOutput"
    /\ waiter[w].firstComplete # 0
    /\ outputHandlers[waiter[w].key] = HostHandler
    /\ o # waiter[w].key
    /\ outputHandlers[o].kind = "wait"

\* C30: the text sendMessage and sendCommand hand to the spawner's write
\* always ends with a line terminator: sendMessage hands the message as it is
\* when it already ends with one and with one appended otherwise (so that
\* normalising the handed text again changes nothing), and sendCommand hands
\* the command, then a space and the argument string when one is given, then
\* a line terminator.
SentTextEndsWithLineEnd ==
  returned.type = "write" =>
    /\ Len(returned.text) > 0
    /\ returned.text[Len(returned.text)] = "\n"
    /\ returned.op = "sendMessage" =>
         LET message == returned.given[1]
         IN /\ (Len(message) > 0 /\ message[Len(message)] = "\n") => returned.text = message
            /\ (Len(message) = 0 \/ message[Len(message)] # "\n") =>
                 returned.text = Append(message, "\n")
            /\ formatMessage(returned.text) = returned.text
    /\ returned.op = "sendCommand" =>
         LET command == returned.given[1]
             args == returned.given[2]
         IN \/ (args = {} \/ args = {<<>>}) /\ returned.text = Append(command, "\n")
            \/ \E a \in args : a # <<>> /\ returned.text = command \o <<" ">> \o a \o <<"\n">>

\* a message that already ends with a line terminator was written to the
\* process of a registered session as it is
SentTextEndsWithLineEndWitness ==
  /\ returned.type = "write"
  /\ returned.op = "sendMessage"
  /\ returned.found
  /\ returned.given[1] = <<"hi", "\n">>
  /\ returned.text = <<"hi", "\n">>
  /\ "text" \in pty[returned.key].written

\* C31: a process exit during the grace window of stop(sessionId, false)
\* completes the stop: once the process of a session has exited, no graceful
\* stop of that session is still suspended on its grace timer.
ExitCompletesGracefulStop ==
  \A s \in Sids : pty[s].proc = "exited" => graceStops[s] = 0

\* C32: the state of a session follows the state machine: created in
\* `starting`; `running` only from `starting` and only by an output chunk
\* with the readiness signal; `stopped` by a stop or the process exit; and
\* `stopped` is terminal, whatever is written, stopped or exits later.
StateMachineFollowed ==
  [][\A s \in Sids :
       /\ session[s].state = "none" => session'[s].state \in {"none", "starting"}
       /\ session[s].state = "starting" =>
            session'[s].state \in {"starting", "running", "stopped"}
       /\ (session[s].state # "running" /\ session'[s].state = "running") =>
            (session[s].state = "starting" /\ Output(s, "ready"))
       /\ session[s].state = "running" => session'[s].state \in {"running", "stopped"}
       /\ (session[s].state # "stopped" /\ session'[s].state = "stopped") =>
            \/ ProcessExit(s)
            \/ StopWake(s)
            \/ \E force \in BOOLEAN : StopSession(s, force)
            \/ ShutdownBegin
       /\ session[s].state = "stopped" => session'[s].state = "stopped"]_vars

\* a session that ran was stopped by a forced stop, its process then wrote
\* the readiness signal once more and exited, and the session is `stopped`
StateMachineFollowedWitness ==
  \E s \in Sids :
    /\ session[s].state = "stopped"
    /\ session[s].outputs > 0
    /\ "force" \in stopReturned[s]
    /\ Len(stopped[s]) = 2
    /\ stopped[s][2]

\* C33: spawn writes the task to the new process, once the settle delay is
\* over and before it returns, if and only if the session is neither resumed
\* nor continued: a process has been sent the task exactly when its own
\* spawn was a fresh one that has returned, and a resumed or continued
\* session is returned at once with nothing written.
TaskWrittenIffFresh ==
  \A s \in Sids :
    /\ spawnPc[s] = "returned" => (("task" \in pty[s].written) <=> (pty[s].args = "fresh"))
    /\ "task" \in pty[s].written => spawnPc[s] = "returned"
    /\ spawnPc[s] \in {"settling", "failed"} => pty[s].args = "fresh"

\* a spawn (of startSession or of a restart) has rejected, or a pty.kill()
\* of a stop has thrown
LifecycleFailed == \E s \in Sids : spawnPc[s] = "failed" \/ pty[s].threw

\* C34: lifecycle operations that fail leave the registry consistent: once a
\* spawn or a restart has rejected or a stop has failed, no registered
\* session has a process that reported its exit, none is in state `stopped`,
\* and every live process is registered or has been sent a terminate signal.
RegistryConsistentAfterFailure ==
  LifecycleFailed =>
    /\ \A s \in activeSessions : pty[s].proc # "exited" /\ session[s].state # "stopped"
    /\ \A s \in Sids :
         pty[s].proc = "alive" => (s \in activeSessions \/ pty[s].signals \cap {"TERM", "KILL"} # {})

\* C37: settling a waitForCompletion deregisters exactly the handler that
\* call registered: the timer callback of a wait leaves every handler that
\* is not the wait's own, such as one registered later on the same session,
\* in the table.
TimeoutRemovesOwnHandlerOnly ==
  [][\A w \in Waiters :
       TimerFire(w) =>
         \A k \in Keys :
           outputHandlers[k] # WaitHandler(w) => outputHandlers'[k] = outputHandlers[k]]_vars

\* C38: as the host sees them, the `started` event of a session precedes
\* its `output` and `stopped` events: whenever an `output` or a `stopped`
\* event of a session has been emitted, its `started` event has been too.
StartedComesFirst ==
  \A s \in Sids :
    ("output" \in HostEvents(s) \/ "stopped" \in HostEvents(s)) => "started" \in HostEvents(s)

\* C39: once the `stopped` event of a session has been emitted, no further
\* output of that session is taken: its output count and its output buffer
\* stay as they are.
NoOutputAfterStopped ==
  [][\A s \in Sids :
       Len(stopped[s]) > 0 =>
         /\ session'[s].outputs = session[s].outputs
         /\ session'[s].outputBuffer = session[s].outputBuffer]_vars

\* C40: a wait settles by output only on a chunk that itself carries a
\* completion or an error marker, whatever the session wrote before the
\* wait was issued.
WaitSettlesOnMarkedChunk ==
  [][\A sid \in Sids, chunk \in limits.chunks :
       (/\ Output(sid, chunk)
        /\ \E w \in Waiters :
             /\ waiter[w].st = "pending"
             /\ waiter'[w].st \in {"resolved", "rejectedError"}) =>
         chunk \in {"done", "err"}]_vars

\* C35: for every `output` event of the spawner the communicator emits
\* exactly one `parsed-output` event with the same session id, and calls the
\* handler registered for that session, if there is one, exactly once with
\* that ParsedOutput, and no handler of another session.
OutputParsedAndDispatched ==
  [][\A sid \in Sids, chunk \in limits.chunks :
       Output(sid, chunk) =>
         LET new == SubSeq(events', Len(events) + 1, Len(events'))
             emitted == SelectSeq(new, LAMBDA e : e.by = "spawner")
             parsed == SelectSeq(new, LAMBDA e : e.by = "communicator")
             calls == SelectSeq(new, LAMBDA e : e.by = "handler")
         IN /\ Len(emitted) = 1 /\ emitted[1].name = "output" /\ emitted[1].sid = sid
            /\ Len(parsed) = 1 /\ parsed[1].name = "parsed-output" /\ parsed[1].sid = sid
            /\ IF outputHandlers[sid] = NoHandler THEN calls = <<>>
               ELSE /\ Len(calls) = 1
                    /\ calls[1].sid = sid
                    /\ calls[1].name = outputHandlers[sid].kind
                    /\ calls[1].w = outputHandlers[sid].w
                    /\ calls[1].out = parsed[1].out]_vars

\* the handler of one session was called with a complete result while the
\* handler of another session, still registered, was never called
OutputParsedAndDispatchedWitness ==
  \E i \in 1..Len(events), o \in Sids :
    /\ events[i].by = "handler"
    /\ events[i].out = "result"
    /\ o # events[i].sid
    /\ outputHandlers[o] # NoHandler
    /\ \A j \in 1..Len(events) : events[j].by = "handler" => events[j].sid # o

\* C36: the runtime forwards every started, output, error, completed and
\* stopped event of its spawner exactly once, in the order the spawner
\* emitted them, on its own emitter and to onEvent when the host supplied
\* one, and emits every `parsed-output` event of the communicator again.
RuntimeForwardsInOrder ==
  LET lifecycle == {"started", "output", "error", "completed", "stopped"}
      Of(by, names) == SelectSeq(events, LAMBDA e : e.by = by /\ e.name \in names)
      What(q) == [i \in 1..Len(q) |-> <<q[i].name, q[i].sid, q[i].out>>]
  IN /\ What(Of("runtime", lifecycle)) = What(Of("spawner", lifecycle))
     /\ What(Of("onEvent", lifecycle \cup {"parsed-output"})) =
          IF limits.events = "onEvent" THEN What(Of("spawner", lifecycle)) ELSE <<>>
     /\ What(Of("runtime", {"parsed-output"})) = What(Of("communicator", {"parsed-output"}))

\* a host with an onEvent callback has received the `started`, the `output`
\* and the `stopped` event of a session, and those of another in between
RuntimeForwardsInOrderWitness ==
  /\ limits.events = "onEvent"
  /\ \E i, j, k \in 1..Len(events) :
       /\ i < j /\ j < k
       /\ events[i].by = "onEvent" /\ events[i].name = "started"
       /\ events[j].by = "onEvent" /\ events[j].name = "output"
       /\ events[k].by = "onEvent" /\ events[k].name = "stopped"
       /\ events[i].sid = events[j].sid /\ events[j].sid = events[k].sid
       /\ \E m \in (i + 1)..(k - 1) : events[m].by = "onEvent" /\ events[m].sid # events[i].sid

=============================================================================
